---- MODULE Spec2Model ----
(***************************************************************************)
(* A model of the prometheus-remote-write writer package:                  *)
(*   NewRemoteMetricsWriter (writer.go), writerImpl.WriteMetrics and        *)
(*   getTimeseries (impl.go), Format / Compression (outputs.go).            *)
(*                                                                         *)
(* Go values are represented as follows.                                    *)
(*   pointer      : a sequence of length <= 1, Nil == <<>>, &x == <<x>>     *)
(*   slice        : a record [nil, elems]; a nil slice and an empty slice   *)
(*                  both have length 0 but differ in the nil flag           *)
(*   string       : a TLA+ string                                           *)
(*   float64      : an integer token (no arithmetic is done on values)      *)
(*   error        : a pointer to the error's message                        *)
(*   http.Header  : a function from header names to sequences of values     *)
(***************************************************************************)
EXTENDS Integers, Sequences, FiniteSets, TLC

\* Largest number of families one Gather returns.
MaxFamilies == 2
\* Largest number of metric instances in one family.
MaxInstances == 2

----------------------------------------------------------------------------
(* Go pointers and slices *)

Nil == <<>>
Ptr(x) == <<x>>
Deref(p) == p[1]

NilSlice == [nil |-> TRUE, elems |-> <<>>]
Slice(s) == [nil |-> FALSE, elems |-> s]
len(s) == Len(s.elems)

SeqsUpTo(S, n) == UNION {[1..k -> S] : k \in 0..n}

RECURSIVE Concat(_)
Concat(ss) == IF ss = <<>> THEN <<>> ELSE Head(ss) \o Concat(Tail(ss))

RECURSIVE SumSeq(_)
SumSeq(s) == IF s = <<>> THEN 0 ELSE Head(s) + SumSeq(Tail(s))

----------------------------------------------------------------------------
(* strings *)

WhiteSpace == {" ", "\t", "\n", "\r"}

RECURSIVE TrimLeft(_)
TrimLeft(s) ==
    IF Len(s) = 0 THEN s
    ELSE IF SubSeq(s, 1, 1) \in WhiteSpace THEN TrimLeft(SubSeq(s, 2, Len(s)))
    ELSE s

RECURSIVE TrimRight(_)
TrimRight(s) ==
    IF Len(s) = 0 THEN s
    ELSE IF SubSeq(s, Len(s), Len(s)) \in WhiteSpace
         THEN TrimRight(SubSeq(s, 1, Len(s) - 1))
    ELSE s

\* strings.TrimSpace
TrimSpace(s) == TrimRight(TrimLeft(s))

\* strings.Contains
Contains(s, sub) ==
    \E i \in 1..(Len(s) - Len(sub) + 1) : SubSeq(s, i, i + Len(sub) - 1) = sub

----------------------------------------------------------------------------
(* constants.go *)

ErrNilContext == "nil context passed"
ErrNoGatherersDefined == "no gatherers were defined"

----------------------------------------------------------------------------
(* writer.go: Format and Compression *)

Protobuf == 1
JSON == 2

None == 0
Snappy == 1
Gzip == 2

----------------------------------------------------------------------------
(* outputs.go *)

\* Format.String
FormatString(f) ==
    CASE f = Protobuf -> "protobuf"
      [] f = JSON -> "json"
      [] OTHER -> "%INVALID!(" \o ToString(f) \o ")"

\* Format.Marshal: the result (data, err) of marshalling wr; data is a pointer
\* to the bytes, Nil for a nil slice.  libOk is whether the encoder of the
\* library (wr.Marshal, json.Marshal) returns without error.
FormatMarshal(f, wr, libOk) ==
    CASE f = Protobuf ->
            IF libOk THEN [data |-> Ptr([encoded |-> "protobuf", wr |-> wr]), err |-> Nil]
            ELSE [data |-> Nil, err |-> Ptr("proto: marshal failed")]
      [] f = JSON ->
            IF libOk THEN [data |-> Ptr([encoded |-> "json", wr |-> wr]), err |-> Nil]
            ELSE [data |-> Nil, err |-> Ptr("json: unsupported value")]
      [] OTHER -> [data |-> Nil, err |-> Ptr("unrecognized format " \o FormatString(f))]

\* Format.UpdateRequest
HeaderSet(h, k, v) == [x \in (DOMAIN h) \cup {k} |-> IF x = k THEN <<v>> ELSE h[x]]

HeaderAdd(h, k, v) ==
    [x \in (DOMAIN h) \cup {k} |->
        IF x = k THEN (IF k \in DOMAIN h THEN Append(h[k], v) ELSE <<v>>) ELSE h[x]]

FormatContentType(f) ==
    CASE f = Protobuf -> "application/x-protobuf"
      [] f = JSON -> "application/json"
      [] OTHER -> "application/octet-stream"

FormatUpdateRequest(f, req) ==
    [req EXCEPT !.Header = HeaderSet(req.Header, "Content-Type", FormatContentType(f))]

\* Compression.String
CompressionString(e) ==
    CASE e = None -> "none"
      [] e = Snappy -> "snappy"
      [] e = Gzip -> "gzip"
      [] OTHER -> "%INVALID!(" \o ToString(e) \o ")"

\* Compression.Compress: libOk is whether the gzip writer's Write returns
\* without error.
CompressionCompress(e, data, libOk) ==
    CASE e = None -> [data |-> Ptr(data), err |-> Nil]
      [] e = Snappy -> [data |-> Ptr([codec |-> "snappy", of |-> data]), err |-> Nil]
      [] e = Gzip ->
            IF libOk THEN [data |-> Ptr([codec |-> "gzip", of |-> data]), err |-> Nil]
            ELSE [data |-> Nil, err |-> Ptr("gzip: write failed")]
      [] OTHER -> [data |-> Nil, err |-> Ptr("unsupported encoding " \o CompressionString(e))]

\* Compression.UpdateRequest without the test for None.
CompressionUpdateRequestAlways(e, req) ==
    [req EXCEPT !.Header = HeaderSet(req.Header, "Content-Encoding", CompressionString(e))]

\* Compression.UpdateRequest
CompressionUpdateRequest(e, req) ==
    IF e # None
    THEN [req EXCEPT !.Header = HeaderSet(req.Header, "Content-Encoding", CompressionString(e))]
    ELSE req

----------------------------------------------------------------------------
(* The metric type enumerations of the two imported packages (impl.go:10-11) *)

\* dto.MetricType (client_model)
DtoMetricType ==
    [COUNTER |-> 0, GAUGE |-> 1, SUMMARY |-> 2, UNTYPED |-> 3, HISTOGRAM |-> 4,
     GAUGE_HISTOGRAM |-> 5]

\* prompb.MetricMetadata_MetricType (prometheus/prompb)
PrompbMetricType ==
    [UNKNOWN |-> 0, COUNTER |-> 1, GAUGE |-> 2, HISTOGRAM |-> 3, GAUGEHISTOGRAM |-> 4,
     SUMMARY |-> 5, INFO |-> 6, STATESET |-> 7]

----------------------------------------------------------------------------
(* impl.go: the getters of the dto messages are nil-safe *)

\* (*dto.Exemplar).GetLabel / GetValue / GetTimestamp on a possibly nil pointer
ExemplarGetLabel(e) == IF e = Nil THEN <<>> ELSE Deref(e).label
ExemplarGetValue(e) == IF e = Nil THEN 0 ELSE Deref(e).value
ExemplarGetTimestamp(e) == IF e = Nil THEN Nil ELSE Deref(e).timestamp

\* (*timestamppb.Timestamp).AsTime().UnixMilli(): a nil timestamp is the epoch;
\* the nanoseconds are truncated to milliseconds.
UnixMilli(t) ==
    IF t = Nil THEN 0 ELSE Deref(t).seconds * 1000 + (Deref(t).nanos \div 1000000)

\* (*dto.Metric).GetTimestampMs
GetTimestampMs(metric) ==
    IF metric.timestampMs = Nil THEN 0 ELSE Deref(metric.timestampMs)

\* impl.go: type valued interface / type hasExemplar interface, and the dto
\* types that have the method: GetValue is a method of *dto.Gauge, *dto.Counter
\* and *dto.Untyped, GetExemplar of *dto.Counter alone.
valued == {"Gauge", "Counter", "Untyped"}
hasExemplar == {"Counter"}

\* (*dto.Counter).GetExemplar
GetExemplar(m) == m.p.exemplar

convertLabel(lp) == [Name |-> lp.name, Value |-> lp.value]

convertLabels(dtoLabels) == [k \in 1..Len(dtoLabels) |-> convertLabel(dtoLabels[k])]

convertExemplar(e) ==
    [Labels |-> convertLabels(ExemplarGetLabel(e)),
     Value |-> ExemplarGetValue(e),
     Timestamp |-> UnixMilli(ExemplarGetTimestamp(e))]

convertBucketSpan(s) == [Offset |-> s.offset, Length |-> s.length]

convertBucketSpans(spans) == [k \in 1..Len(spans) |-> convertBucketSpan(spans[k])]

\* SelectPayload with the histogram probed on its own instead of as the last
\* case of the switch.
SelectPayloadHistogramApart(metric) ==
    [samplerMetric |->
        CASE metric.gauge # Nil -> Ptr([type |-> "Gauge", p |-> Deref(metric.gauge)])
          [] metric.counter # Nil -> Ptr([type |-> "Counter", p |-> Deref(metric.counter)])
          [] metric.untyped # Nil -> Ptr([type |-> "Untyped", p |-> Deref(metric.untyped)])
          [] OTHER -> Nil,
     histogram |-> metric.histogram]

\* impl.go:131-143: the switch that selects the payload of an instance.  The
\* result is the pair (samplerMetric, histogram); samplerMetric is an
\* interface value, Nil or the dynamic type with the pointer's target.
SelectPayload(metric) ==
    CASE metric.gauge # Nil ->
            [samplerMetric |-> Ptr([type |-> "Gauge", p |-> Deref(metric.gauge)]),
             histogram |-> Nil]
      [] metric.counter # Nil ->
            [samplerMetric |-> Ptr([type |-> "Counter", p |-> Deref(metric.counter)]),
             histogram |-> Nil]
      [] metric.untyped # Nil ->
            [samplerMetric |-> Ptr([type |-> "Untyped", p |-> Deref(metric.untyped)]),
             histogram |-> Nil]
      [] metric.histogram # Nil ->
            [samplerMetric |-> Nil, histogram |-> metric.histogram]
      [] OTHER -> [samplerMetric |-> Nil, histogram |-> Nil]

\* impl.go:149-162: samples and exemplars of a scalar payload
ScalarSamples(metric, samplerMetric) ==
    IF samplerMetric # Nil /\ Deref(samplerMetric).type \in valued
    THEN <<[Value |-> Deref(samplerMetric).p.value, Timestamp |-> GetTimestampMs(metric)]>>
    ELSE <<>>

ScalarExemplars(samplerMetric) ==
    IF samplerMetric # Nil /\ Deref(samplerMetric).type \in hasExemplar
    THEN <<convertExemplar(GetExemplar(Deref(samplerMetric)))>>
    ELSE <<>>

\* impl.go:167-178: the histogram entry
convertHistogram(h) ==
    [Sum |-> h.sampleSum,
     Schema |-> h.schema,
     ZeroThreshold |-> h.zeroThreshold,
     NegativeSpans |-> convertBucketSpans(h.negativeSpan),
     NegativeDeltas |-> h.negativeDelta,
     NegativeCounts |-> h.negativeCount,
     PositiveSpans |-> convertBucketSpans(h.positiveSpan),
     PositiveDeltas |-> h.positiveDelta,
     PositiveCounts |-> h.positiveCount,
     Timestamp |-> UnixMilli(h.createdTimestamp)]

\* impl.go:127-187: the series of one metric instance
convertMetric(family, metric) ==
    LET sel == SelectPayload(metric)
        prompbLabels == Append(convertLabels(metric.label),
                               [Name |-> "__name__", Value |-> family.name])
        samples == ScalarSamples(metric, sel.samplerMetric)
        exemplars == ScalarExemplars(sel.samplerMetric)
    IN  IF sel.histogram # Nil
        THEN [Labels |-> prompbLabels,
              Samples |-> <<>>,
              Exemplars |-> [k \in 1..Len(Deref(sel.histogram).exemplars) |->
                                convertExemplar(Deref(sel.histogram).exemplars[k])],
              Histograms |-> <<convertHistogram(Deref(sel.histogram))>>]
        ELSE [Labels |-> prompbLabels,
              Samples |-> samples,
              Exemplars |-> exemplars,
              Histograms |-> <<>>]

\* getTimeseries that drops the instances without a recognized payload.
getTimeseriesSkipsContentless(f) ==
    IF f.metric.nil THEN <<>>
    ELSE SelectSeq([k \in 1..len(f.metric) |-> convertMetric(f, f.metric.elems[k])],
                   LAMBDA x : x.Samples # <<>> \/ x.Histograms # <<>>)

\* impl.go:121-190
getTimeseries(family) ==
    IF family.metric.nil THEN <<>>
    ELSE [i \in 1..len(family.metric) |-> convertMetric(family, family.metric.elems[i])]

\* impl.go:49: prompb.MetricMetadata_MetricType(metricsFamily.GetType()), an
\* integer conversion between the two enumerations: the number is kept.
CastMetricType(t) == t

\* impl.go:48-53
convertMetadata(family) ==
    [Type |-> CastMetricType(family.type),
     MetricFamilyName |-> family.name,
     Help |-> family.help,
     Unit |-> family.unit]

----------------------------------------------------------------------------
(* The inputs *)

\* dto.LabelPair, dto.Exemplar and the payload messages of dto.Metric
ConstLabels == <<[name |-> "label1", value |-> "value1"],
                 [name |-> "label2", value |-> "value2"]>>

AnExemplar ==
    [label |-> <<[name |-> "trace_id", value |-> "abc"]>>,
     value |-> 7,
     timestamp |-> Ptr([seconds |-> 1, nanos |-> 234500000])]

AGauge == [value |-> 10]
ACounter == [value |-> 5, exemplar |-> Nil]
ACounterWithExemplar == [value |-> 5, exemplar |-> Ptr(AnExemplar)]
AnUntyped == [value |-> 3]
ASummary == [sampleCount |-> 1, sampleSum |-> 35]
AHistogram ==
    [sampleSum |-> 35, schema |-> 3, zeroThreshold |-> 0,
     negativeSpan |-> <<>>, negativeDelta |-> <<>>, negativeCount |-> <<>>,
     positiveSpan |-> <<[offset |-> 0, length |-> 2]>>,
     positiveDelta |-> <<1, 0>>, positiveCount |-> <<>>,
     createdTimestamp |-> Ptr([seconds |-> 2, nanos |-> 999999]),
     exemplars |-> <<Ptr(AnExemplar)>>]

\* dto.Metric
Metric(label, gauge, counter, summary, untyped, histogram, timestampMs) ==
    [label |-> label, gauge |-> gauge, counter |-> counter, summary |-> summary,
     untyped |-> untyped, histogram |-> histogram, timestampMs |-> timestampMs]

\* dto.MetricFamily
MetricFamily(name, help, type, unit, metric) ==
    [name |-> name, help |-> help, type |-> type, unit |-> unit, metric |-> metric]

\* The families a registry of the client library gathers, sorted by name as
\* Gather returns them; every instance of a family carries the payload of the
\* family's type (a summary instance carries none of the payloads that
\* getTimeseries probes).
Catalogue ==
    << [name |-> "foo_bar_baz", help |-> "quxx", type |-> DtoMetricType.COUNTER, unit |-> "",
        instance |-> Metric(<<>>, Nil, Ptr(ACounter), Nil, Nil, Nil, Nil)],
       [name |-> "foo_bar_wbbl", help |-> "asf", type |-> DtoMetricType.GAUGE, unit |-> "",
        instance |-> Metric(ConstLabels, Ptr(AGauge), Nil, Nil, Nil, Nil, Ptr(1700))],
       [name |-> "foo_hist_testhist", help |-> "", type |-> DtoMetricType.HISTOGRAM,
        unit |-> "seconds",
        instance |-> Metric(ConstLabels, Nil, Nil, Nil, Nil, Ptr(AHistogram), Nil)],
       [name |-> "foo_summary", help |-> "", type |-> DtoMetricType.SUMMARY, unit |-> "",
        instance |-> Metric(<<>>, Nil, Nil, Ptr(ASummary), Nil, Nil, Nil)] >>

\* The metric slices of a family of the catalogue: nil, or 0..MaxInstances
\* instances.
MetricSlices(c) ==
    {NilSlice} \cup {Slice([j \in 1..k |-> c.instance]) : k \in 0..MaxInstances}

RECURSIVE SortedSeq(_)
SortedSeq(S) ==
    IF S = {} THEN <<>>
    ELSE LET m == CHOOSE x \in S : \A y \in S : x <= y
         IN  <<m>> \o SortedSeq(S \ {m})

\* What Gatherers.Gather can return without error: at most MaxFamilies families
\* of the catalogue, in name order.
FamilyOf(x, metric) ==
    MetricFamily(Catalogue[x].name, Catalogue[x].help, Catalogue[x].type,
                 Catalogue[x].unit, metric)

Picks(S) ==
    {pick \in [S -> UNION {MetricSlices(Catalogue[x]) : x \in S}] :
        \A x \in S : pick[x] \in MetricSlices(Catalogue[x])}

GatherResults ==
    UNION { { LET idx == SortedSeq(S)
              IN  [k \in 1..Len(idx) |-> FamilyOf(idx[k], pick[idx[k]])]
              : pick \in Picks(S) }
            : S \in {T \in SUBSET (1..Len(Catalogue)) : Cardinality(T) <= MaxFamilies} }

\* RemoteMetricsWriterOptions and the variadic gatherers of the constructor
TargetURLs == {"", " \t", "http://remote/api/v1/write", "://remote"}
HTTPClients == {Ptr("client")}
OutputFormats == {0, Protobuf, JSON, 3}
OutputEncodings == {None, Snappy, Gzip, 3}
RemoteWriteVersions == {"", "  ", "2.0"}
GathererLists == {NilSlice, Slice(<<>>), Slice(<<"registry">>)}

\* Every combination of the options with a client of the caller's, and the
\* options that leave everything but the URL at its zero value.
Options ==
    [TargetURL : TargetURLs, HTTPClient : HTTPClients, OutputFormat : OutputFormats,
     OutputEncoding : OutputEncodings, RemoteWriteVersion : RemoteWriteVersions]
    \cup
    { [TargetURL |-> u, HTTPClient |-> Nil, OutputFormat |-> 0, OutputEncoding |-> None,
       RemoteWriteVersion |-> ""] : u \in TargetURLs }

\* context.Context arguments of WriteMetrics
Contexts == {Nil, Ptr("context.Background")}

\* What the transport answers when it returns a response
Responses ==
    { [StatusCode |-> 199, Status |-> "199 Early"],
      [StatusCode |-> 200, Status |-> "200 OK"],
      [StatusCode |-> 299, Status |-> "299 Custom"],
      [StatusCode |-> 300, Status |-> "300 Multiple Choices"],
      [StatusCode |-> 500, Status |-> "500 Internal Server Error"] }

----------------------------------------------------------------------------
(* State *)

VARIABLES
    pc,              \* "new", "rejected" (the constructor returned an error),
                     \* "idle", the line WriteMetrics is at, or "done"
    writer,          \* the *writerImpl the constructor returned, Nil before
    newErr,          \* the error the constructor returned
    newArgs,         \* the arguments the constructor was called with
    ctx,             \* WriteMetrics' argument
    metricFamilies,  \* impl.go:35
    i,               \* the index of the loop at impl.go:47
    ts,              \* impl.go:40
    metadata,        \* impl.go:41
    uncompressed,    \* impl.go:63
    compressed,      \* impl.go:68
    req,             \* impl.go:73
    resp,            \* impl.go:82
    err,             \* impl.go:35, 63, 68, 73, 82
    ret,             \* what WriteMetrics returned: [n, err]
    calls,           \* the collaborators this call of WriteMetrics has invoked
    sent,            \* the requests this call has handed to the transport
    family,          \* getTimeseries' argument
    series,          \* getTimeseries' result
    returned         \* whether getTimeseries has returned

vars == <<pc, writer, newErr, newArgs, ctx, metricFamilies, i, ts, metadata,
          uncompressed, compressed, req, resp, err, ret, calls, sent, family, series,
          returned>>

locals == <<ctx, metricFamilies, i, ts, metadata, uncompressed, compressed, req, resp,
            err>>

writerVars == <<writer, newErr, newArgs>>

adapterVars == <<family, series, returned>>

NoFamily == MetricFamily("", "", DtoMetricType.COUNTER, "", NilSlice)

InitLocals ==
    /\ ctx = Nil
    /\ metricFamilies = <<>>
    /\ i = 1
    /\ ts = <<>>
    /\ metadata = <<>>
    /\ uncompressed = Nil
    /\ compressed = Nil
    /\ req = Nil
    /\ resp = Nil
    /\ err = Nil
    /\ ret = Nil
    /\ calls = <<>>
    /\ sent = <<>>

Init ==
    /\ pc = "new"
    /\ writer = Nil
    /\ newErr = Nil
    /\ newArgs = Nil
    /\ InitLocals
    /\ family = NoFamily
    /\ series = <<>>
    /\ returned = FALSE

----------------------------------------------------------------------------
(* writer.go: NewRemoteMetricsWriter *)

DefaultRemoteWriteVersion == "0.1.0"

\* writer.go:48-77: the pair (writer, error) the constructor returns
NewWriter(options, gatherers) ==
    IF TrimSpace(options.TargetURL) = ""
    THEN [w |-> Nil, err |-> Ptr("options.TargetURL must be set")]
    ELSE [w |-> Ptr([hc |-> IF options.HTTPClient = Nil THEN "http.DefaultClient"
                            ELSE Deref(options.HTTPClient),
                     targetURL |-> options.TargetURL,
                     gatherers |-> IF gatherers.nil
                                   THEN Slice(<<"prometheus.DefaultGatherer">>)
                                   ELSE gatherers,
                     format |-> IF options.OutputFormat = 0 THEN Protobuf
                                ELSE options.OutputFormat,
                     encoding |-> options.OutputEncoding,
                     version |-> IF TrimSpace(options.RemoteWriteVersion) = ""
                                 THEN DefaultRemoteWriteVersion
                                 ELSE options.RemoteWriteVersion]),
          err |-> Nil]

NewRemoteMetricsWriter ==
    /\ pc = "new"
    /\ \E options \in Options, gatherers \in GathererLists :
         LET r == NewWriter(options, gatherers)
         IN  /\ writer' = r.w
             /\ newErr' = r.err
             /\ newArgs' = Ptr([options |-> options, gatherers |-> gatherers])
             /\ pc' = IF r.err = Nil THEN "idle" ELSE "rejected"
    /\ UNCHANGED <<locals, ret, calls, sent, adapterVars>>

----------------------------------------------------------------------------
(* impl.go: writerImpl.WriteMetrics *)

w == Deref(writer)

\* return n, err
Return(n, e) ==
    /\ pc' = "done"
    /\ ret' = Ptr([n |-> n, err |-> e])

\* impl.go:27-29
CheckContext ==
    /\ pc = "idle"
    /\ \E c \in Contexts :
         /\ ctx' = c
         /\ IF c = Nil
            THEN Return(0, Ptr(ErrNilContext))
            ELSE pc' = "L31" /\ UNCHANGED ret
    /\ UNCHANGED <<writerVars, metricFamilies, i, ts, metadata, uncompressed,
                   compressed, req, resp, err, calls, sent, adapterVars>>

\* impl.go:31-33
CheckGatherers ==
    /\ pc = "L31"
    /\ IF len(w.gatherers) = 0
       THEN Return(0, Ptr(ErrNoGatherersDefined))
       ELSE pc' = "L35" /\ UNCHANGED ret
    /\ UNCHANGED <<writerVars, locals, calls, sent, adapterVars>>

\* Gather without the early return for an empty result.
GatherWithoutEmptyReturn ==
    /\ pc = "L35"
    /\ calls' = Append(calls, "Gather")
    /\ \/ /\ err' = Ptr("gather failed")
          /\ Return(0, Ptr("gather failed"))
          /\ UNCHANGED <<metricFamilies, ts, metadata, i>>
       \/ \E fams \in GatherResults :
            /\ err' = Nil
            /\ metricFamilies' = fams
            /\ ts' = <<>>
            /\ metadata' = <<>>
            /\ i' = 1
            /\ pc' = "L47"
            /\ UNCHANGED ret
    /\ UNCHANGED <<writerVars, ctx, uncompressed, compressed, req, resp, sent,
                   adapterVars>>

\* impl.go:35-45: gather, and return at once when nothing was gathered
Gather ==
    /\ pc = "L35"
    /\ calls' = Append(calls, "Gather")
    /\ \/ /\ err' = Ptr("gather failed")
          /\ Return(0, Ptr("gather failed"))
          /\ UNCHANGED <<metricFamilies, ts, metadata, i>>
       \/ \E fams \in GatherResults :
            /\ err' = Nil
            /\ metricFamilies' = fams
            /\ ts' = <<>>
            /\ metadata' = <<>>
            /\ i' = 1
            /\ IF Len(fams) = 0
               THEN Return(0, Nil)
               ELSE pc' = "L47" /\ UNCHANGED ret
    /\ UNCHANGED <<writerVars, ctx, uncompressed, compressed, req, resp, sent,
                   adapterVars>>

\* impl.go:47-56: one iteration of the loop over the families
AdaptFamily ==
    /\ pc = "L47"
    /\ i <= Len(metricFamilies)
    /\ metadata' = Append(metadata, convertMetadata(metricFamilies[i]))
    /\ ts' = ts \o getTimeseries(metricFamilies[i])
    /\ calls' = Append(calls, "getTimeseries")
    /\ i' = i + 1
    /\ UNCHANGED <<pc, writerVars, ctx, metricFamilies, uncompressed, compressed,
                   req, resp, err, ret, sent, adapterVars>>

\* Marshal entered from inside the loop, before every family is adapted.
MarshalBeforeLoopEnds ==
    /\ pc = "L47"
    /\ calls' = Append(calls, "Marshal")
    /\ \E libOk \in BOOLEAN :
         LET wr == [Timeseries |-> ts, Metadata |-> metadata]
             r == FormatMarshal(w.format, wr, libOk)
         IN  /\ uncompressed' = r.data
             /\ err' = r.err
             /\ IF r.err # Nil
                THEN Return(0, r.err)
                ELSE pc' = "L68" /\ UNCHANGED ret
    /\ UNCHANGED <<writerVars, ctx, metricFamilies, i, ts, metadata, compressed,
                   req, resp, sent, adapterVars>>

\* impl.go:58-66
Marshal ==
    /\ pc = "L47"
    /\ i > Len(metricFamilies)
    /\ calls' = Append(calls, "Marshal")
    /\ \E libOk \in BOOLEAN :
         LET wr == [Timeseries |-> ts, Metadata |-> metadata]
             r == FormatMarshal(w.format, wr, libOk)
         IN  /\ uncompressed' = r.data
             /\ err' = r.err
             /\ IF r.err # Nil
                THEN Return(0, r.err)
                ELSE pc' = "L68" /\ UNCHANGED ret
    /\ UNCHANGED <<writerVars, ctx, metricFamilies, i, ts, metadata, compressed,
                   req, resp, sent, adapterVars>>

\* impl.go:68-71
Compress ==
    /\ pc = "L68"
    /\ calls' = Append(calls, "Compress")
    /\ \E libOk \in BOOLEAN :
         LET r == CompressionCompress(w.encoding, Deref(uncompressed), libOk)
         IN  /\ compressed' = r.data
             /\ err' = r.err
             /\ IF r.err # Nil
                THEN Return(0, r.err)
                ELSE pc' = "L73" /\ UNCHANGED ret
    /\ UNCHANGED <<writerVars, ctx, metricFamilies, i, ts, metadata, uncompressed,
                   req, resp, sent, adapterVars>>

\* url.Parse, as far as http.NewRequestWithContext depends on it: a URL that
\* starts with a colon has no protocol scheme.
ParseURL(u) ==
    IF Len(u) > 0 /\ SubSeq(u, 1, 1) = ":"
    THEN Ptr("parse " \o u \o ": missing protocol scheme")
    ELSE Nil

\* http.NewRequestWithContext
NewRequestWithContext(c, method, url, body) ==
    IF c = Nil THEN [req |-> Nil, err |-> Ptr("net/http: nil Context")]
    ELSE IF ParseURL(url) # Nil THEN [req |-> Nil, err |-> ParseURL(url)]
    ELSE [req |-> Ptr([Method |-> method, URL |-> url, Header |-> <<>>,
                       Body |-> body]),
          err |-> Nil]

\* impl.go:78-80: the headers of the request
SetHeaders(wi, r) ==
    CompressionUpdateRequest(wi.encoding,
        FormatUpdateRequest(wi.format,
            [r EXCEPT !.Header =
                HeaderAdd(r.Header, "X-Prometheus-Remote-Write-Version", wi.version)]))

\* impl.go:73-80
NewRequest ==
    /\ pc = "L73"
    /\ calls' = Append(calls, "NewRequest")
    /\ LET r == NewRequestWithContext(ctx, "POST", w.targetURL, Deref(compressed))
       IN  /\ err' = r.err
           /\ IF r.err # Nil
              THEN Return(0, r.err) /\ UNCHANGED req
              ELSE /\ req' = Ptr(SetHeaders(w, Deref(r.req)))
                   /\ pc' = "L82"
                   /\ UNCHANGED ret
    /\ UNCHANGED <<writerVars, ctx, metricFamilies, i, ts, metadata, uncompressed,
                   compressed, resp, sent, adapterVars>>

\* impl.go:82-86: the request goes to the transport, which fails or answers
Do ==
    /\ pc = "L82"
    /\ calls' = Append(calls, "Do")
    /\ sent' = Append(sent, Deref(req))
    /\ \/ /\ err' = Ptr("transport failed")
          /\ Return(0, Ptr("transport failed"))
          /\ UNCHANGED resp
       \/ \E r \in Responses :
            /\ err' = Nil
            /\ resp' = Ptr(r)
            /\ pc' = "L88"
            /\ UNCHANGED ret
    /\ UNCHANGED <<writerVars, ctx, metricFamilies, i, ts, metadata, uncompressed,
                   compressed, req, adapterVars>>

\* StatusRejected with the upper limit off by one.
StatusRejectedOffByOne(code) == code < 200 \/ code >= 299

\* impl.go:88: whether the status code is a failure
StatusRejected(code) == code < 200 \/ code > 299

\* Outcome with the series count kept on the failure path.
OutcomeKeepsCount(r, series_) ==
    IF StatusRejected(r.StatusCode)
    THEN [n |-> Len(series_), err |-> Ptr("expected 2xx HTTP code, but got " \o r.Status)]
    ELSE [n |-> Len(series_), err |-> Nil]

\* impl.go:88-92: the pair WriteMetrics returns once the transport has answered
Outcome(r, series_) ==
    IF StatusRejected(r.StatusCode)
    THEN [n |-> 0, err |-> Ptr("expected 2xx HTTP code, but got " \o r.Status)]
    ELSE [n |-> Len(series_), err |-> Nil]

CheckStatus ==
    /\ pc = "L88"
    /\ LET o == Outcome(Deref(resp), ts) IN Return(o.n, o.err)
    /\ UNCHANGED <<writerVars, locals, calls, sent, adapterVars>>

\* The caller takes the result; the writer is ready for the next call.
Finish ==
    /\ pc = "done"
    /\ pc' = "idle"
    /\ ctx' = Nil
    /\ metricFamilies' = <<>>
    /\ i' = 1
    /\ ts' = <<>>
    /\ metadata' = <<>>
    /\ uncompressed' = Nil
    /\ compressed' = Nil
    /\ req' = Nil
    /\ resp' = Nil
    /\ err' = Nil
    /\ ret' = Nil
    /\ calls' = <<>>
    /\ sent' = <<>>
    /\ UNCHANGED <<writerVars, adapterVars>>

Next ==
    \/ NewRemoteMetricsWriter
    \/ CheckContext
    \/ CheckGatherers
    \/ Gather
    \/ AdaptFamily
    \/ Marshal
    \/ Compress
    \/ NewRequest
    \/ Do
    \/ CheckStatus
    \/ Finish

Spec == Init /\ [][Next]_vars

----------------------------------------------------------------------------
(* getTimeseries on its own, over every combination of payloads *)

\* The instances a family handed to getTimeseries can hold: each payload
\* field set or not, independently of the others.
AdapterMetrics ==
    { Metric(ConstLabels, g, c, Nil, u, h, t) :
        g \in {Nil, Ptr(AGauge)},
        c \in {Nil, Ptr(ACounter), Ptr(ACounterWithExemplar)},
        u \in {Nil, Ptr(AnUntyped)},
        h \in {Nil, Ptr(AHistogram)},
        t \in {Nil, Ptr(1700)} }

AdapterFamilies ==
    { MetricFamily("foo_bar_baz", "quxx", DtoMetricType.COUNTER, "", m) :
        m \in {NilSlice} \cup {Slice(s) : s \in SeqsUpTo(AdapterMetrics, MaxInstances)} }

InitAdapter ==
    /\ pc = "new"
    /\ writer = Nil
    /\ newErr = Nil
    /\ newArgs = Nil
    /\ InitLocals
    /\ family \in AdapterFamilies
    /\ series = <<>>
    /\ returned = FALSE

CallGetTimeseries ==
    /\ ~returned
    /\ series' = getTimeseries(family)
    /\ returned' = TRUE
    /\ UNCHANGED <<pc, writerVars, locals, ret, calls, sent, family>>

NextAdapter == CallGetTimeseries

SpecAdapter == InitAdapter /\ [][NextAdapter]_vars

----------------------------------------------------------------------------
(* Properties *)

Returned == pc = "done"
Result == Deref(ret)
Failed == Returned /\ Result.err # Nil
Succeeded == Returned /\ Result.err = Nil

Last(s) == s[Len(s)]

\* The number of metric instances over all families
TotalInstances(fams) == SumSeq([k \in 1..Len(fams) |-> len(fams[k].metric)])

\* For each instance, in gather order then instance order, its family's name
InstanceOwners(fams) ==
    Concat([k \in 1..Len(fams) |-> [j \in 1..len(fams[k].metric) |-> fams[k].name]])

Contentless(x) == x.Samples = <<>> /\ x.Histograms = <<>>

\* C1: whenever WriteMetrics returns an error, the count it returns is 0.
C1_ErrorMeansZeroCount == Failed => Result.n = 0

\* A call that fails after series were built and the request was sent.
C1_Witness == Failed /\ Len(ts) > 0 /\ resp # Nil

\* C2: whenever WriteMetrics succeeds, the count is the number of metric
\* instances over all gathered families, one series per instance in gather order
\* then instance order, and one metadata record per family; families without
\* instances and instances without a recognized payload are no exception.
C2_CountIsInstanceTotal ==
    Succeeded =>
        /\ Result.n = TotalInstances(metricFamilies)
        /\ Len(ts) = Result.n
        /\ Len(metadata) = Len(metricFamilies)
        /\ \A k \in 1..Len(ts) :
              Last(ts[k].Labels) = [Name |-> "__name__",
                                    Value |-> InstanceOwners(metricFamilies)[k]]

\* A successful call over a family without instances and a family whose
\* instances have no recognized payload.
C2_Witness ==
    /\ Succeeded
    /\ Len(sent) = 1
    /\ \E k \in 1..Len(metricFamilies) : len(metricFamilies[k].metric) = 0
    /\ \E k \in 1..Len(ts) : Contentless(ts[k])
    /\ Result.n = 2

\* The request a complete run builds from the gathered families
CompleteRequest(fams) ==
    [Timeseries |-> Concat([k \in 1..Len(fams) |-> getTimeseries(fams[k])]),
     Metadata |-> [k \in 1..Len(fams) |-> convertMetadata(fams[k])]]

\* C3: the transport is invoked at most once per call, and only after every
\* family was adapted and the complete request was marshalled and compressed;
\* a call that fails before that (nil context, no sources, gather, marshal or
\* compress failure) never invokes it.
C3_SentOnlyComplete ==
    /\ Len(sent) <= 1
    /\ sent # <<>> =>
          /\ ctx # Nil
          /\ len(w.gatherers) > 0
          /\ calls = <<"Gather">> \o [k \in 1..Len(metricFamilies) |-> "getTimeseries"]
                     \o <<"Marshal", "Compress", "NewRequest", "Do">>
          /\ uncompressed # Nil
          /\ compressed # Nil
          /\ Deref(uncompressed).wr = CompleteRequest(metricFamilies)
          /\ sent[1].Body = Deref(compressed)
          /\ \/ Deref(compressed) = Deref(uncompressed)
             \/ Deref(compressed).of = Deref(uncompressed)
    /\ (Failed /\ (calls = <<>> \/ Last(calls) \in {"Gather", "Marshal", "Compress"}))
          => sent = <<>>

\* A request was sent for two gathered families.
C3_Witness ==
    /\ sent # <<>>
    /\ Len(metricFamilies) = 2
    /\ TotalInstances(metricFamilies) >= 2

\* C4: once the transport has answered, WriteMetrics succeeds exactly when the
\* status code is within 200..299; otherwise it returns 0 and an error whose
\* message contains the status text.
C4_StatusDecides ==
    (Returned /\ resp # Nil) =>
        LET code == Deref(resp).StatusCode
        IN  /\ (Result.err = Nil) <=> (code >= 200 /\ code <= 299)
            /\ ~(code >= 200 /\ code <= 299) =>
                  /\ Result.n = 0
                  /\ Result.err # Nil
                  /\ Contains(Deref(Result.err), Deref(resp).Status)

\* The transport answered 299 and the call succeeded with series.
C4_Witness ==
    /\ Returned
    /\ resp # Nil
    /\ Deref(resp).StatusCode = 299
    /\ Result.err = Nil
    /\ Result.n > 0

\* The call returned because Gather failed.
GatherFailed == calls = <<"Gather">> /\ err # Nil

\* C5: with a context and a source, a gather that succeeds with no family makes
\* WriteMetrics return (0, nil) without marshalling, compressing or sending.
C5_EmptyGatherIsNoOp ==
    (/\ Returned
     /\ ctx # Nil
     /\ len(w.gatherers) > 0
     /\ calls # <<>>
     /\ ~GatherFailed
     /\ metricFamilies = <<>>)
    => /\ ret = Ptr([n |-> 0, err |-> Nil])
       /\ calls = <<"Gather">>
       /\ uncompressed = Nil
       /\ compressed = Nil
       /\ req = Nil
       /\ sent = <<>>

\* Gather succeeded with no family and the call returned.
C5_Witness ==
    /\ Returned
    /\ ctx # Nil
    /\ calls = <<"Gather">>
    /\ err = Nil
    /\ metricFamilies = <<>>

IsBlank(str) == \A k \in 1..Len(str) : SubSeq(str, k, k) \in WhiteSpace

\* C6: every request handed to the transport is a POST to the configured URL
\* with the configured version (0.1.0 for an empty or blank option), the
\* Content-Type of the format, and a Content-Encoding that is absent for None
\* and "snappy" or "gzip" otherwise.
C6_SentRequestsWellFormed ==
    \A k \in 1..Len(sent) :
        LET r == sent[k]
            o == Deref(newArgs).options
        IN  /\ r.Method = "POST"
            /\ r.URL = o.TargetURL
            /\ DOMAIN r.Header \subseteq
                  {"X-Prometheus-Remote-Write-Version", "Content-Type", "Content-Encoding"}
            /\ r.Header["X-Prometheus-Remote-Write-Version"] =
                  <<IF IsBlank(o.RemoteWriteVersion) THEN "0.1.0"
                    ELSE o.RemoteWriteVersion>>
            /\ o.OutputFormat \in {0, Protobuf, JSON}
            /\ r.Header["Content-Type"] =
                  <<IF o.OutputFormat = JSON THEN "application/json"
                    ELSE "application/x-protobuf">>
            /\ o.OutputEncoding \in {None, Snappy, Gzip}
            /\ o.OutputEncoding = None => "Content-Encoding" \notin DOMAIN r.Header
            /\ o.OutputEncoding = Snappy => r.Header["Content-Encoding"] = <<"snappy">>
            /\ o.OutputEncoding = Gzip => r.Header["Content-Encoding"] = <<"gzip">>

\* A request was sent by a writer built with a blank version and no compression.
C6_Witness ==
    /\ sent # <<>>
    /\ Deref(newArgs).options.RemoteWriteVersion = "  "
    /\ Deref(newArgs).options.OutputEncoding = None
    /\ Deref(newArgs).options.OutputFormat = JSON

\* The wire type that denotes the same kind as a family's declared type
SameKindWireType(t) ==
    CASE t = DtoMetricType.COUNTER -> PrompbMetricType.COUNTER
      [] t = DtoMetricType.GAUGE -> PrompbMetricType.GAUGE
      [] t = DtoMetricType.SUMMARY -> PrompbMetricType.SUMMARY
      [] t = DtoMetricType.UNTYPED -> PrompbMetricType.UNKNOWN
      [] t = DtoMetricType.HISTOGRAM -> PrompbMetricType.HISTOGRAM
      [] t = DtoMetricType.GAUGE_HISTOGRAM -> PrompbMetricType.GAUGEHISTOGRAM

\* C7: the metadata record of every adapted family carries the wire type of the
\* same kind as the family's declared type, and the family's name, help and unit.
C7_MetadataTypeMatchesFamily ==
    \A k \in 1..Len(metadata) :
        metadata[k] = [Type |-> SameKindWireType(metricFamilies[k].type),
                       MetricFamilyName |-> metricFamilies[k].name,
                       Help |-> metricFamilies[k].help,
                       Unit |-> metricFamilies[k].unit]

\* C8: every writer the constructor returns has a source, so WriteMetrics never
\* returns ErrNoGatherersDefined.
C8_ConstructedWriterHasSources ==
    Returned =>
        /\ len(w.gatherers) > 0
        /\ Result.err # Ptr(ErrNoGatherersDefined)

\* The payload the switch of getTimeseries selects
ScalarSelected(m) == m.gauge # Nil \/ m.counter # Nil \/ m.untyped # Nil
HistogramSelected(m) == ~ScalarSelected(m) /\ m.histogram # Nil

ScalarValue(m) ==
    CASE m.gauge # Nil -> Deref(m.gauge).value
      [] m.counter # Nil -> Deref(m.counter).value
      [] OTHER -> Deref(m.untyped).value

\* Only a counter has an exemplar field.
ScalarCarriesExemplar(m) ==
    m.gauge = Nil /\ m.counter # Nil /\ Deref(m.counter).exemplar # Nil

\* C9: the series of a scalar instance has exactly one sample, with the
\* scalar's value and the instance's timestamp, and one exemplar when the
\* scalar carries one, none otherwise.
C9_ScalarSeriesShape ==
    returned =>
        \A k \in 1..Len(series) :
            LET m == family.metric.elems[k]
            IN  ScalarSelected(m) =>
                  /\ series[k].Samples =
                        <<[Value |-> ScalarValue(m), Timestamp |-> GetTimestampMs(m)]>>
                  /\ Len(series[k].Exemplars) = IF ScalarCarriesExemplar(m) THEN 1 ELSE 0

\* C10: no series has both samples and histogram entries; a histogram instance
\* yields no sample and one histogram entry, a scalar instance no histogram
\* entry.
C10_SamplesXorHistograms ==
    returned =>
        /\ Len(series) = len(family.metric)
        /\ \A k \in 1..Len(series) :
              LET m == family.metric.elems[k]
                  x == series[k]
              IN  /\ ~(x.Samples # <<>> /\ x.Histograms # <<>>)
                  /\ HistogramSelected(m) => (x.Samples = <<>> /\ Len(x.Histograms) = 1)
                  /\ ScalarSelected(m) => x.Histograms = <<>>

\* getTimeseries returned the series of an instance with a gauge and a
\* histogram, and of an instance with a histogram alone.
C10_Witness ==
    /\ returned
    /\ Len(series) = 2
    /\ \E k \in 1..2 : /\ family.metric.elems[k].gauge # Nil
                       /\ family.metric.elems[k].histogram # Nil
    /\ \E k \in 1..2 : HistogramSelected(family.metric.elems[k])

====
